---- MODULE Spec2Model ----
(***************************************************************************)
(* Model of rfnoc_tx_streamer (host/lib/rfnoc/rfnoc_tx_streamer.cpp): the  *)
(* TX streamer node of an RFNoC graph.  The node owns five edge properties *)
(* per channel, three channel-local resolvers per channel, one             *)
(* cross-channel MTU resolver per channel, and the connect_channel and     *)
(* check_topology operations.  The property engine (node_t) and the        *)
(* streaming base (tx_streamer_impl) are collaborators of this file.       *)
(***************************************************************************)
EXTENDS Integers, Sequences, FiniteSets, TLC

(* ----------------------------- bounds ---------------------------------- *)
\* largest channel count a node is constructed with
MaxChans == 2
\* number of set_property / connect_channel calls followed in one behaviour
MaxOps == 3
\* longest connected_inputs vector handed to check_topology
MaxInputs == 1
\* further nodes constructed concurrently, one thread each
MaxCtors == 3

(* --------------------------- value domains ----------------------------- *)
ScalingVals == {1, 7}
SampRateVals == {100, 200}
TickRateVals == {200, 400}
TypeVals == {"sc16", "fc32"}
\* stream_args.otw_format the node is constructed with
OtwFormats == {"sc16"}
Payloads == {1400, 1472, 1500}

(* ---------------------------- constants -------------------------------- *)
PROP_KEY_SCALING == "scaling"
PROP_KEY_SAMP_RATE == "samp_rate"
PROP_KEY_TICK_RATE == "tick_rate"
PROP_KEY_TYPE == "type"
PROP_KEY_MTU == "mtu"
STREAMER_ID == "TxStreamer"
\* numerator of the scale factor handed to the device (32767.0 / scaling)
FullScale == 32767
\* tx_streamer_impl::_mtu before any set_mtu: the largest size_t, kept
\* within the model checker's integer range
SizeMax == 2147483647
\* engine fail-safe: rounds allowed per resolver before ResolutionDivergence
RoundsPerResolver == 2

VARIABLES
    num_chans,      \* constructor argument num_chans
    otw_format,     \* stream_args.otw_format
    props,          \* _scaling_out, _samp_rate_out, _tick_rate_out, _type_out, _mtu_out
    mtu,            \* tx_streamer_impl::_mtu (aggregate MTU)
    dev,            \* what the device-control interface was last told
    calls,          \* device-control calls issued by the current operation
    xports,         \* transports bound in the streaming base, per channel
    prop_fwd,       \* property forwarding policy
    action_fwd,     \* action forwarding policy
    forwarded,      \* properties handed on to a neighbouring node
    pc,             \* position of the running operation
    cur,            \* the running (or last) operation and its arguments
    dirty,          \* properties awaiting resolution in this round
    queue,          \* resolvers still to run in this round
    written,        \* properties written during this round
    rounds,         \* rounds completed by the running resolution
    err,            \* error raised by the last operation
    nops,           \* operations started so far
    payloads,       \* payload sizes fed by successful connect_channel calls
    direct,         \* values fed by set(MTU, ...) calls
    snap,           \* properties and aggregate MTU when a set is repeated
    topo,           \* last check_topology call and its result
    streamer_inst_ctr,  \* the process-wide atomic instance counter
    unique_id,      \* _unique_id of this node
    nodes           \* the further nodes: constructor position and _unique_id

vars == <<num_chans, otw_format, props, mtu, dev, calls, xports, prop_fwd,
          action_fwd, forwarded, pc, cur, dirty, queue, written, rounds, err,
          nops, payloads, direct, snap, topo, streamer_inst_ctr, unique_id,
          nodes>>

\* what the construction of further nodes works on
ctor_vars == <<streamer_inst_ctr, unique_id, nodes>>

\* the state of this node past its construction
node_vars == <<num_chans, otw_format, props, mtu, dev, calls, xports,
               prop_fwd, action_fwd, forwarded, pc, cur, dirty, queue,
               written, rounds, err, nops, payloads, direct, snap, topo>>

(* ----------------------------- helpers --------------------------------- *)
Chans(n) == 0 .. (n - 1)

Keys == {PROP_KEY_SCALING, PROP_KEY_SAMP_RATE, PROP_KEY_TICK_RATE,
         PROP_KEY_TYPE, PROP_KEY_MTU}

PropIds(n) == Keys \X Chans(n)

MinOf(S) == CHOOSE x \in S : \A y \in S : x <= y

ValsOf(key) ==
    CASE key = PROP_KEY_SCALING -> ScalingVals
      [] key = PROP_KEY_SAMP_RATE -> SampRateVals
      [] key = PROP_KEY_TICK_RATE -> TickRateVals
      [] key = PROP_KEY_TYPE -> TypeVals
      [] OTHER -> Payloads

\* an unset property: valid == false, no meaningful value
Invalid == [valid |-> FALSE, val |-> 0]

\* the part of the node state the resolvers and the engine work on
St == [props |-> props, mtu |-> mtu, dev |-> dev, calls |-> calls,
       xports |-> xports, forwarded |-> forwarded, pc |-> pc, cur |-> cur,
       dirty |-> dirty, queue |-> queue, written |-> written,
       rounds |-> rounds, err |-> err]

Install(s) ==
    /\ props' = s.props
    /\ mtu' = s.mtu
    /\ dev' = s.dev
    /\ calls' = s.calls
    /\ xports' = s.xports
    /\ forwarded' = s.forwarded
    /\ pc' = s.pc
    /\ cur' = s.cur
    /\ dirty' = s.dirty
    /\ queue' = s.queue
    /\ written' = s.written
    /\ rounds' = s.rounds
    /\ err' = s.err

(* ------------------- property_t and device control --------------------- *)
\* property_t::set: store the value, mark valid, mark dirty
prop_set(s, id, v) ==
    [s EXCEPT !.props[id] = [valid |-> TRUE, val |-> v],
              !.written = @ \cup {id}]

is_valid(s, id) == s.props[id].valid

prop_get(s, id) == s.props[id].val

get_mtu(s) == s.mtu

set_mtu(s, m) ==
    [s EXCEPT !.mtu = m, !.calls = Append(@, <<"set_mtu", m>>)]

set_scale_factor(s, chan, factor) ==
    [s EXCEPT !.dev.scale[chan] = factor,
              !.calls = Append(@, <<"set_scale_factor", chan, factor>>)]

set_samp_rate(s, rate) ==
    [s EXCEPT !.dev.samp = rate,
              !.calls = Append(@, <<"set_samp_rate", rate>>)]

set_tick_rate(s, rate) ==
    [s EXCEPT !.dev.tick = rate,
              !.calls = Append(@, <<"set_tick_rate", rate>>)]

(* ----------------------------- resolvers ------------------------------- *)
\* the scale factor goes to channel 0 whatever channel was set
ScalingResolverChanZero(s, chan) ==
    IF is_valid(s, <<PROP_KEY_SCALING, chan>>)
    THEN set_scale_factor(s, 0,
             FullScale \div prop_get(s, <<PROP_KEY_SCALING, chan>>))
    ELSE s

\* scaling resolver of channel chan
ScalingResolver(s, chan) ==
    IF is_valid(s, <<PROP_KEY_SCALING, chan>>)
    THEN set_scale_factor(s, chan,
             FullScale \div prop_get(s, <<PROP_KEY_SCALING, chan>>))
    ELSE s

\* only channel 0's property drives the device rate
SampRateResolverFirstChanOnly(s, chan) ==
    IF chan = 0 /\ is_valid(s, <<PROP_KEY_SAMP_RATE, chan>>)
    THEN set_samp_rate(s, prop_get(s, <<PROP_KEY_SAMP_RATE, chan>>))
    ELSE s

\* the rate is also written into channel 0's property, to keep them in step
SampRateResolverSyncs(s, chan) ==
    IF is_valid(s, <<PROP_KEY_SAMP_RATE, chan>>)
    THEN set_samp_rate(
             prop_set(s, <<PROP_KEY_SAMP_RATE, 0>>,
                      prop_get(s, <<PROP_KEY_SAMP_RATE, chan>>)),
             prop_get(s, <<PROP_KEY_SAMP_RATE, chan>>))
    ELSE s

\* sample-rate resolver of channel chan
SampRateResolver(s, chan) ==
    IF is_valid(s, <<PROP_KEY_SAMP_RATE, chan>>)
    THEN set_samp_rate(s, prop_get(s, <<PROP_KEY_SAMP_RATE, chan>>))
    ELSE s

\* the validity of the property is not looked at
TickRateResolverUnchecked(s, chan) ==
    set_tick_rate(s, prop_get(s, <<PROP_KEY_TICK_RATE, chan>>))

\* tick-rate resolver of channel chan
TickRateResolver(s, chan) ==
    IF is_valid(s, <<PROP_KEY_TICK_RATE, chan>>)
    THEN set_tick_rate(s, prop_get(s, <<PROP_KEY_TICK_RATE, chan>>))
    ELSE s

\* the loop over _mtu_out misses its first element
RECURSIVE SetAllMtuSkipFirst(_, _, _, _)
SetAllMtuSkipFirst(s, m, k, n) ==
    IF k >= n THEN s
    ELSE IF k = 0 THEN SetAllMtuSkipFirst(s, m, k + 1, n)
    ELSE SetAllMtuSkipFirst(prop_set(s, <<PROP_KEY_MTU, k>>, m), m, k + 1, n)

\* for (auto& prop : this->_mtu_out) prop.set(m), channels k .. n-1
RECURSIVE SetAllMtu(_, _, _, _)
SetAllMtu(s, m, k, n) ==
    IF k >= n THEN s
    ELSE SetAllMtu(prop_set(s, <<PROP_KEY_MTU, k>>, m), m, k + 1, n)

\* the properties receive the value less a header of 8 bytes
MtuResolverShrinks(s, i, n) ==
    IF is_valid(s, <<PROP_KEY_MTU, i>>)
    THEN LET m == prop_get(s, <<PROP_KEY_MTU, i>>)
         IN IF m < get_mtu(s)
            THEN set_mtu(SetAllMtu(s, m - 8, 0, n), m)
            ELSE s
    ELSE s

\* the value is applied whatever the aggregate is
MtuResolverUnconditional(s, i, n) ==
    IF is_valid(s, <<PROP_KEY_MTU, i>>)
    THEN LET m == prop_get(s, <<PROP_KEY_MTU, i>>)
         IN set_mtu(SetAllMtu(s, m, 0, n), m)
    ELSE s

\* the properties are written but the aggregate is not updated
MtuResolverNoAggregate(s, i, n) ==
    IF is_valid(s, <<PROP_KEY_MTU, i>>)
    THEN LET m == prop_get(s, <<PROP_KEY_MTU, i>>)
         IN IF m < get_mtu(s)
            THEN SetAllMtu(s, m, 0, n)
            ELSE s
    ELSE s

\* the comparison is the wrong way round: larger values win
MtuResolverFlipped(s, i, n) ==
    IF is_valid(s, <<PROP_KEY_MTU, i>>)
    THEN LET m == prop_get(s, <<PROP_KEY_MTU, i>>)
         IN IF m > get_mtu(s)
            THEN set_mtu(SetAllMtu(s, m, 0, n), m)
            ELSE s
    ELSE s

\* the properties receive the aggregate as it was before the update
MtuResolverStale(s, i, n) ==
    IF is_valid(s, <<PROP_KEY_MTU, i>>)
    THEN LET m == prop_get(s, <<PROP_KEY_MTU, i>>)
         IN IF m < get_mtu(s)
            THEN set_mtu(SetAllMtu(s, get_mtu(s), 0, n), m)
            ELSE s
    ELSE s

\* an equal value counts as a change, so every run rewrites every property
MtuResolverNonStrict(s, i, n) ==
    IF is_valid(s, <<PROP_KEY_MTU, i>>)
    THEN LET m == prop_get(s, <<PROP_KEY_MTU, i>>)
         IN IF m <= get_mtu(s)
            THEN set_mtu(SetAllMtu(s, m, 0, n), m)
            ELSE s
    ELSE s

\* cross-channel MTU resolver of channel i on a node of n channels
MtuResolver(s, i, n) ==
    IF is_valid(s, <<PROP_KEY_MTU, i>>)
    THEN LET m == prop_get(s, <<PROP_KEY_MTU, i>>)
         IN IF m < get_mtu(s)
            THEN set_mtu(SetAllMtu(s, m, 0, n), m)
            ELSE s
    ELSE s

\* the three resolvers _register_props adds for channel chan, in order
ChanResolvers(chan) ==
    << <<PROP_KEY_SCALING, chan>>, <<PROP_KEY_SAMP_RATE, chan>>,
       <<PROP_KEY_TICK_RATE, chan>> >>

RECURSIVE LocalResolvers(_, _)
LocalResolvers(k, n) ==
    IF k >= n THEN <<>> ELSE ChanResolvers(k) \o LocalResolvers(k + 1, n)

\* the resolvers of a node of n channels in registration order: the
\* channel-local ones channel by channel, then one MTU resolver per channel
Resolvers(n) ==
    LocalResolvers(0, n) \o [i \in 1 .. n |-> <<PROP_KEY_MTU, i - 1>>]

\* read set of resolver r
Inputs(r) == {r}

\* an MTU resolver declares only its own channel's property as output
OutputsOwnChannel(r, n) ==
    IF r[1] = PROP_KEY_MTU THEN {r} ELSE {}

\* write set of resolver r
Outputs(r, n) ==
    IF r[1] = PROP_KEY_MTU THEN {PROP_KEY_MTU} \X Chans(n) ELSE {}

\* the callback of resolver r
Invoke(s, r, n) ==
    CASE r[1] = PROP_KEY_SCALING -> ScalingResolver(s, r[2])
      [] r[1] = PROP_KEY_SAMP_RATE -> SampRateResolver(s, r[2])
      [] r[1] = PROP_KEY_TICK_RATE -> TickRateResolver(s, r[2])
      [] OTHER -> MtuResolver(s, r[2], n)

(* ------------------------------ ports ---------------------------------- *)
get_num_input_ports == 0

get_num_output_ports(n) == n

(* ------------------------- resolution engine --------------------------- *)
\* resolvers whose read set intersects the dirty set d, in registration order
Selected(d, n) == SelectSeq(Resolvers(n), LAMBDA r : Inputs(r) \cap d # {})

AllInputsInvalid(s, r) == \A id \in Inputs(r) : ~is_valid(s, id)

MaxRounds(n) == RoundsPerResolver * Len(Resolvers(n))

\* hand the properties of a finished round on to the neighbours, unless the
\* forwarding policy drops them
Forward(s, policy) ==
    IF policy = "DROP" THEN s
    ELSE [s EXCEPT !.forwarded = @ \cup s.dirty]

\* invoke the next resolver of the round; one whose inputs are all invalid
\* is skipped
RunNext(s, n) ==
    LET r == Head(s.queue)
        s1 == [s EXCEPT !.queue = Tail(@)]
    IN IF AllInputsInvalid(s1, r) THEN s1 ELSE Invoke(s1, r, n)

\* where control goes when resolve() returns
ReturnTo(s) == IF s.cur.op = "connect" THEN "bind" ELSE "idle"

\* end of a round: stop when nothing was written, fail when the round
\* budget is used up, otherwise start the next round on what was written
EndRound(s, n, policy) ==
    LET f == Forward(s, policy)
    IN IF s.written = {}
       THEN [f EXCEPT !.dirty = {}, !.rounds = @ + 1, !.pc = ReturnTo(s)]
       ELSE IF s.rounds + 1 >= MaxRounds(n)
            THEN [f EXCEPT !.rounds = @ + 1, !.err = "ResolutionDivergence",
                           !.pc = "idle"]
            ELSE [f EXCEPT !.dirty = s.written, !.written = {},
                           !.queue = Selected(s.written, n),
                           !.rounds = @ + 1]

EngineStep(s, n, policy) ==
    IF s.queue # <<>> THEN RunNext(s, n) ELSE EndRound(s, n, policy)

\* resolve() run to its return
RECURSIVE Resolve(_, _, _)
Resolve(s, n, policy) ==
    IF s.pc # "resolve" THEN s
    ELSE Resolve(EngineStep(s, n, policy), n, policy)

\* node_t::set_property: store the value, mark it valid and dirty, resolve
set_property(s, id, v, n) ==
    [s EXCEPT !.props[id] = [valid |-> TRUE, val |-> v],
              !.dirty = {id},
              !.written = {},
              !.queue = Selected({id}, n),
              !.rounds = 0,
              !.pc = "resolve"]

\* an operation begins: nothing called yet, no error yet
Begin(s, op, key, chan, v) ==
    [s EXCEPT !.calls = <<>>, !.err = "none",
              !.cur = [op |-> op, key |-> key, chan |-> chan, val |-> v]]

(* --------------------------- check_topology ---------------------------- *)
\* node_t::check_topology: every listed port exists on the node
node_check_topology(connected_inputs, connected_outputs, n) ==
    /\ \A i \in DOMAIN connected_inputs :
           connected_inputs[i] < get_num_input_ports
    /\ \A i \in DOMAIN connected_outputs :
           connected_outputs[i] < get_num_output_ports(n)

\* the count of connected outputs is not looked at
check_topology_no_count(connected_inputs, connected_outputs, n) ==
    node_check_topology(connected_inputs, connected_outputs, n)

check_topology(connected_inputs, connected_outputs, n) ==
    IF Len(connected_outputs) # get_num_output_ports(n)
    THEN FALSE
    ELSE node_check_topology(connected_inputs, connected_outputs, n)

(* --------------------------- connect_channel --------------------------- *)
\* tx_streamer_impl::connect_channel: bind the transport to the channel
base_connect_channel(s) ==
    [s EXCEPT !.xports[s.cur.chan] = s.cur.val, !.pc = "idle"]

\* the channel check is off by one: channel == channel count passes
connect_channel_off_by_one(s, channel, payload, n) ==
    LET b == Begin(s, "connect", PROP_KEY_MTU, channel, payload)
    IN IF ~(channel <= n)
       THEN [b EXCEPT !.err = "OutOfRange"]
       ELSE set_property(b, <<PROP_KEY_MTU, channel>>, payload, n)

\* the payload size is applied to the aggregate before the channel check
connect_channel_mtu_first(s, channel, payload, n) ==
    LET b == Begin(s, "connect", PROP_KEY_MTU, channel, payload)
        e == IF payload < get_mtu(b) THEN set_mtu(b, payload) ELSE b
    IN IF ~(channel < n)
       THEN [e EXCEPT !.err = "OutOfRange"]
       ELSE set_property(e, <<PROP_KEY_MTU, channel>>, payload, n)

\* the transport is bound before the MTU property is set
connect_channel_bind_first(s, channel, payload, n) ==
    LET b == Begin(s, "connect", PROP_KEY_MTU, channel, payload)
    IN IF ~(channel < n)
       THEN [b EXCEPT !.err = "OutOfRange"]
       ELSE set_property([b EXCEPT !.xports[channel] = payload],
                         <<PROP_KEY_MTU, channel>>, payload, n)

\* rfnoc_tx_streamer::connect_channel up to the return of set_property's
\* resolution; the bind follows at pc = "bind"
connect_channel(s, channel, payload, n) ==
    LET b == Begin(s, "connect", PROP_KEY_MTU, channel, payload)
    IN IF ~(channel < n)
       THEN [b EXCEPT !.err = "OutOfRange"]
       ELSE set_property(b, <<PROP_KEY_MTU, channel>>, payload, n)

(* ----------------------------- constructor ----------------------------- *)
Threads == 1 .. MaxCtors

\* STREAMER_ID + "#" + std::to_string(streamer_inst_ctr++), for counter value c
make_unique_id(c) == STREAMER_ID \o "#" \o ToString(c)

\* a node whose constructor has not been entered
NotConstructed == [pc |-> "new", id |-> "", tmp |-> 0, got |-> ""]

\* the constructor leaves the default policy in place
CtorPropPolicyDefault == "ONE_TO_ONE"

CtorPropPolicy == "DROP"

CtorActionPolicy == "DROP"

\* the node after _register_props: every property unset but the type
Registered(n, fmt) ==
    [props |-> [id \in PropIds(n) |->
                   IF id[1] = PROP_KEY_TYPE
                   THEN [valid |-> TRUE, val |-> fmt] ELSE Invalid],
     mtu |-> SizeMax,
     dev |-> [scale |-> [c \in Chans(n) |-> 0], samp |-> 0, tick |-> 0],
     calls |-> <<>>,
     xports |-> [c \in Chans(n) |-> 0],
     forwarded |-> {},
     pc |-> "idle",
     cur |-> [op |-> "none", key |-> "none", chan |-> 0, val |-> 0],
     dirty |-> {},
     queue |-> <<>>,
     written |-> {},
     rounds |-> 0,
     err |-> "none"]

\* init_props: every registered resolver runs once, then all is clean
RECURSIVE RunAll(_, _, _)
RunAll(s, rs, n) ==
    IF rs = <<>> THEN s ELSE RunAll(Invoke(s, Head(rs), n), Tail(rs), n)

init_props(s, n) == [RunAll(s, Resolvers(n), n) EXCEPT !.written = {}]

Constructed(n, fmt) == init_props(Registered(n, fmt), n)

(* ------------------------------ actions -------------------------------- *)
NoSnap == [on |-> FALSE, props |-> <<>>, mtu |-> 0]

\* the call about to start repeats the set that has just returned
Repeats(key, chan, v) ==
    /\ cur.op = "set"
    /\ err = "none"
    /\ cur.key = key
    /\ cur.chan = chan
    /\ cur.val = v

Init ==
    /\ num_chans \in 0 .. MaxChans
    /\ otw_format \in OtwFormats
    /\ LET s == Constructed(num_chans, otw_format)
       IN /\ props = s.props
          /\ mtu = s.mtu
          /\ dev = s.dev
          /\ calls = s.calls
          /\ xports = s.xports
          /\ forwarded = s.forwarded
          /\ pc = s.pc
          /\ cur = s.cur
          /\ dirty = s.dirty
          /\ queue = s.queue
          /\ written = s.written
          /\ rounds = s.rounds
          /\ err = s.err
    /\ prop_fwd = CtorPropPolicy
    /\ action_fwd = CtorActionPolicy
    /\ nops = 0
    /\ payloads = {}
    /\ direct = {}
    /\ snap = NoSnap
    /\ topo = [called |-> FALSE, inputs |-> <<>>, outputs |-> <<>>,
               ret |-> FALSE]
    /\ unique_id = make_unique_id(0)
    /\ streamer_inst_ctr = 1
    /\ nodes = [t \in Threads |-> NotConstructed]

\* set(key, chan, v) on an existing property
SetProperty(key, chan, v) ==
    /\ pc = "idle"
    /\ nops < MaxOps
    /\ chan \in Chans(num_chans)
    /\ Install(set_property(Begin(St, "set", key, chan, v),
                            <<key, chan>>, v, num_chans))
    /\ nops' = nops + 1
    /\ direct' = IF key = PROP_KEY_MTU THEN direct \cup {v} ELSE direct
    /\ snap' = IF Repeats(key, chan, v)
               THEN [on |-> TRUE, props |-> props, mtu |-> mtu]
               ELSE NoSnap
    /\ UNCHANGED <<num_chans, otw_format, prop_fwd, action_fwd, payloads,
                   topo>>
    /\ UNCHANGED ctor_vars

\* connect_channel(channel, xport) with xport->get_max_payload_size() = payload
ConnectChannel(channel, payload) ==
    /\ pc = "idle"
    /\ nops < MaxOps
    /\ Install(connect_channel(St, channel, payload, num_chans))
    /\ nops' = nops + 1
    /\ payloads' = IF channel < num_chans THEN payloads \cup {payload}
                   ELSE payloads
    /\ snap' = NoSnap
    /\ UNCHANGED <<num_chans, otw_format, prop_fwd, action_fwd, direct, topo>>
    /\ UNCHANGED ctor_vars

\* the engine invokes the next resolver of the round
RunResolver ==
    /\ pc = "resolve"
    /\ queue # <<>>
    /\ Install(RunNext(St, num_chans))
    /\ UNCHANGED <<num_chans, otw_format, prop_fwd, action_fwd, nops,
                   payloads, direct, snap, topo>>
    /\ UNCHANGED ctor_vars

\* the engine closes the round
RoundEnd ==
    /\ pc = "resolve"
    /\ queue = <<>>
    /\ Install(EndRound(St, num_chans, prop_fwd))
    /\ UNCHANGED <<num_chans, otw_format, prop_fwd, action_fwd, nops,
                   payloads, direct, snap, topo>>
    /\ UNCHANGED ctor_vars

\* connect_channel hands the transport to the streaming base
Bind ==
    /\ pc = "bind"
    /\ Install(base_connect_channel(St))
    /\ UNCHANGED <<num_chans, otw_format, prop_fwd, action_fwd, nops,
                   payloads, direct, snap, topo>>
    /\ UNCHANGED ctor_vars

Next ==
    \/ \E key \in Keys : \E chan \in Chans(MaxChans + 1) :
           \E v \in ValsOf(key) : SetProperty(key, chan, v)
    \/ \E channel \in 0 .. num_chans : \E payload \in Payloads :
           ConnectChannel(channel, payload)
    \/ RunResolver
    \/ RoundEnd
    \/ Bind

Spec == Init /\ [][Next]_vars

(* ----------------- check_topology as a pure predicate ------------------ *)
RECURSIVE SeqsUpTo(_, _)
SeqsUpTo(S, k) ==
    IF k = 0 THEN {<<>>}
    ELSE LET shorter == SeqsUpTo(S, k - 1)
         IN shorter \cup {Append(q, x) : q \in shorter, x \in S}

\* check_topology(connected_inputs, connected_outputs) is called
CheckTopology(connected_inputs, connected_outputs) ==
    /\ pc = "idle"
    /\ topo' = [called |-> TRUE, inputs |-> connected_inputs,
                outputs |-> connected_outputs,
                ret |-> check_topology(connected_inputs, connected_outputs,
                                       num_chans)]
    /\ UNCHANGED <<num_chans, otw_format, props, mtu, dev, calls, xports,
                   prop_fwd, action_fwd, forwarded, pc, cur, dirty, queue,
                   written, rounds, err, nops, payloads, direct, snap>>
    /\ UNCHANGED ctor_vars

TopoNext ==
    \E ci \in SeqsUpTo(0 .. 1, MaxInputs) :
        \E co \in SeqsUpTo(0 .. num_chans, num_chans + 1) :
            CheckTopology(ci, co)

SpecTopo == Init /\ [][TopoNext]_vars

(* ------------------- concurrent construction of nodes ------------------ *)
\* thread t enters the constructor: the base class is constructed first
BaseCtor(t) ==
    /\ nodes[t].pc = "new"
    /\ nodes' = [nodes EXCEPT ![t].pc = "id"]
    /\ UNCHANGED <<streamer_inst_ctr, unique_id>>
    /\ UNCHANGED node_vars

\* the load and the store of the counter are separate steps
TakeIdRacy(t) ==
    /\ \/ /\ nodes[t].pc = "id"
          /\ nodes' = [nodes EXCEPT ![t].pc = "store",
                                    ![t].tmp = streamer_inst_ctr]
          /\ UNCHANGED streamer_inst_ctr
       \/ /\ nodes[t].pc = "store"
          /\ nodes' = [nodes EXCEPT ![t].pc = "body",
                                    ![t].id = make_unique_id(nodes[t].tmp)]
          /\ streamer_inst_ctr' = nodes[t].tmp + 1
    /\ UNCHANGED unique_id
    /\ UNCHANGED node_vars

\* _unique_id is initialised from streamer_inst_ctr++, one atomic step
TakeId(t) ==
    /\ nodes[t].pc = "id"
    /\ nodes' = [nodes EXCEPT ![t].pc = "body",
                              ![t].id = make_unique_id(streamer_inst_ctr)]
    /\ streamer_inst_ctr' = streamer_inst_ctr + 1
    /\ UNCHANGED unique_id
    /\ UNCHANGED node_vars

\* the constructor body runs to its end
CtorBody(t) ==
    /\ nodes[t].pc = "body"
    /\ nodes' = [nodes EXCEPT ![t].pc = "done"]
    /\ UNCHANGED <<streamer_inst_ctr, unique_id>>
    /\ UNCHANGED node_vars

\* get_unique_id() on the node thread t constructed
GetUniqueId(t) ==
    /\ nodes[t].pc = "done"
    /\ nodes[t].got = ""
    /\ nodes' = [nodes EXCEPT ![t].got = nodes[t].id]
    /\ UNCHANGED <<streamer_inst_ctr, unique_id>>
    /\ UNCHANGED node_vars

CtorNext ==
    \E t \in Threads :
        \/ BaseCtor(t)
        \/ TakeId(t)
        \/ CtorBody(t)
        \/ GetUniqueId(t)

SpecCtor == Init /\ [][CtorNext]_vars

(* ------------------------------ properties ----------------------------- *)
\* the MTU property of channel c
MtuProp(c) == props[<<PROP_KEY_MTU, c>>]

\* only connect_channel has fed MTU values, and the last call has returned
AfterConnects == pc = "idle" /\ payloads # {} /\ direct = {}

\* C1: after any sequence of successful connect_channel calls on a freshly
\* constructed node, the aggregate MTU equals the smallest payload size fed
AggregateMtuIsMinPayload == AfterConnects => mtu = MinOf(payloads)

AggregateMtuIsMinPayloadWitness ==
    /\ AfterConnects
    /\ payloads = {1400, 1500}
    /\ mtu = 1400
    /\ nops = 3

\* C2: after any sequence of successful connect_channel calls, every
\* channel's MTU property is valid and equals the aggregate MTU
AllMtuPropsEqualAggregate ==
    AfterConnects =>
        \A c \in Chans(num_chans) : MtuProp(c).valid /\ MtuProp(c).val = mtu

\* C3 as stated: check_topology returns true if and only if the number of
\* connected outputs equals the channel count
TopologyIffOutputCount ==
    topo.called => (topo.ret <=> Len(topo.outputs) = num_chans)

\* C3: check_topology returns true only if the number of connected outputs
\* equals the channel count; with that many outputs its result is the base
\* class's verdict on the listed ports
TopologyOnlyIfOutputCount ==
    topo.called =>
        /\ topo.ret => Len(topo.outputs) = num_chans
        /\ Len(topo.outputs) = num_chans =>
               (topo.ret <=> node_check_topology(topo.inputs, topo.outputs,
                                                 num_chans))

TopologyOnlyIfOutputCountWitness ==
    /\ topo.called
    /\ topo.ret
    /\ num_chans = 2
    /\ topo.outputs = <<1, 0>>

\* C4: connect_channel fails with the out-of-range error exactly when the
\* channel is not below the channel count
ConnectRejectsExactlyOutOfRange ==
    cur.op = "connect" => (err = "OutOfRange" <=> cur.chan >= num_chans)

ConnectRejectsExactlyOutOfRangeWitness ==
    /\ cur.op = "connect"
    /\ err = "OutOfRange"
    /\ num_chans = 2
    /\ cur.chan = 2
    /\ nops = 2

\* the step is a connect_channel call that was rejected
RejectedConnect ==
    /\ pc = "idle"
    /\ nops' = nops + 1
    /\ cur'.op = "connect"
    /\ err' = "OutOfRange"

\* C5: a connect_channel call rejected for its channel index changes no
\* property, not the dirty set, not the aggregate MTU and not the bound
\* transports, and starts no resolution
RejectedConnectChangesNothing ==
    [][RejectedConnect =>
          /\ UNCHANGED <<props, dirty, written, queue, mtu, xports, dev,
                         forwarded, payloads>>
          /\ pc' = "idle"]_vars

RejectedConnectChangesNothingWitness ==
    /\ cur.op = "connect"
    /\ err = "OutOfRange"
    /\ mtu = 1472
    /\ \E c \in Chans(num_chans) : xports[c] = 1472

\* C6: a transport is handed to the streaming base only by the bind step,
\* taken once the resolution set off by set(MTU, channel, payload) has
\* returned: nothing is dirty, the channel's MTU property is valid and the
\* aggregate MTU is no larger than the payload size
BindOnlyAfterResolution ==
    [][xports' # xports =>
          /\ pc = "bind"
          /\ dirty = {}
          /\ written = {}
          /\ queue = <<>>
          /\ MtuProp(cur.chan).valid
          /\ mtu <= cur.val]_vars

BindOnlyAfterResolutionWitness ==
    /\ pc = "idle"
    /\ cur.op = "connect"
    /\ err = "none"
    /\ xports[cur.chan] = cur.val
    /\ rounds = 2
    /\ mtu = cur.val

\* C7: a set of Scaling[c] makes exactly one device-control call, namely
\* set_scale_factor(c, 32767 / value), and no other
ScalingSetCallsDeviceOnce ==
    (pc = "idle" /\ cur.op = "set" /\ cur.key = PROP_KEY_SCALING) =>
        calls = << <<"set_scale_factor", cur.chan, FullScale \div cur.val>> >>

ScalingSetCallsDeviceOnceWitness ==
    /\ pc = "idle"
    /\ cur.op = "set"
    /\ cur.key = PROP_KEY_SCALING
    /\ num_chans = 2
    /\ cur.chan = 1
    /\ calls = << <<"set_scale_factor", 1, 32767>> >>
    /\ dev.scale[0] = 4681

\* C8: the node is a sink: both forwarding policies are DROP, it has no
\* input port and one output port per channel, and nothing is ever handed
\* to a neighbouring node
NodeIsSink ==
    /\ prop_fwd = "DROP"
    /\ action_fwd = "DROP"
    /\ get_num_input_ports = 0
    /\ get_num_output_ports(num_chans) = num_chans
    /\ forwarded = {}

NodeIsSinkWitness ==
    /\ pc = "idle"
    /\ nops = 3
    /\ mtu # SizeMax
    /\ dev.samp # 0
    /\ \E c \in Chans(num_chans) : xports[c] # 0

\* C9: a set repeated with the same key, channel and value leaves every
\* property and the aggregate MTU as the first call left them
RepeatedSetChangesNothing ==
    (pc = "idle" /\ snap.on) => (props = snap.props /\ mtu = snap.mtu)

RepeatedSetChangesNothingWitness ==
    /\ pc = "idle"
    /\ snap.on
    /\ cur.key = PROP_KEY_MTU
    /\ mtu = 1400
    /\ \E c \in Chans(num_chans) : MtuProp(c).val = 1500

HasId(ns) == {t \in DOMAIN ns : ns[t].pc \in {"body", "done"}}

\* no two identifiers handed out are equal
AllIdsDistinct(ns, uid) ==
    /\ \A t \in HasId(ns) : ns[t].id # uid
    /\ \A t1, t2 \in HasId(ns) : t1 # t2 => ns[t1].id # ns[t2].id

\* C11: nodes constructed in one process, under every interleaving of their
\* constructors, get pairwise distinct identifiers, and an identifier never
\* changes once its node has it; get_unique_id returns it
UniqueIdsDistinctAndStable ==
    [][/\ AllIdsDistinct(nodes', unique_id')
       /\ unique_id' = unique_id
       /\ \A t \in HasId(nodes) : nodes'[t].id = nodes[t].id
       /\ \A t \in HasId(nodes') : nodes'[t].got \in {"", nodes'[t].id}]_vars

UniqueIdsDistinctAndStableWitness ==
    /\ unique_id = "TxStreamer#0"
    /\ nodes[1].pc = "done"
    /\ nodes[2].pc = "done"
    /\ nodes[2].id = "TxStreamer#1"
    /\ nodes[1].id = "TxStreamer#2"
    /\ nodes[1].got = "TxStreamer#2"

\* C12: no step raises the aggregate MTU, and while a set or connect_channel
\* feeds MTU[i] a value not below the aggregate, the aggregate and every
\* other channel's MTU property stay as they are
AggregateMtuNeverGrows ==
    [][/\ mtu' <= mtu
       /\ (cur'.key = PROP_KEY_MTU /\ cur'.val >= mtu) =>
             /\ mtu' = mtu
             /\ \A c \in Chans(num_chans) \ {cur'.chan} :
                    props'[<<PROP_KEY_MTU, c>>] = props[<<PROP_KEY_MTU, c>>]]_vars

AggregateMtuNeverGrowsWitness ==
    /\ pc = "idle"
    /\ num_chans = 2
    /\ cur.op = "set"
    /\ cur.key = PROP_KEY_MTU
    /\ cur.val = 1500
    /\ mtu = 1400
    /\ MtuProp(1 - cur.chan) = [valid |-> TRUE, val |-> 1400]

\* C13: whenever no resolution is in progress, the aggregate MTU is at most
\* the value of every valid MTU property
AggregateBelowValidMtuProps ==
    pc # "resolve" =>
        \A c \in Chans(num_chans) : MtuProp(c).valid => mtu <= MtuProp(c).val

AggregateBelowValidMtuPropsWitness ==
    /\ pc = "idle"
    /\ \E c \in Chans(num_chans) : MtuProp(c).valid /\ MtuProp(c).val > mtu
    /\ \E c \in Chans(num_chans) : MtuProp(c).valid /\ MtuProp(c).val = mtu

\* set_property has just stored the value and resolution is about to start
JustCalled ==
    /\ pc = "resolve"
    /\ rounds = 0
    /\ written = {}
    /\ queue = Selected(dirty, num_chans)

\* C14: when MTU[i] is set to a value below the aggregate MTU, resolution
\* ends with every channel's MTU property valid and equal to that value,
\* and the aggregate MTU equal to it
LoweringSetReachesAllChannels ==
    (JustCalled /\ cur.key = PROP_KEY_MTU /\ cur.val < mtu) =>
        LET r == Resolve(St, num_chans, prop_fwd)
        IN /\ r.pc \in {"idle", "bind"}
           /\ r.err = "none"
           /\ r.mtu = cur.val
           /\ \A c \in Chans(num_chans) :
                  r.props[<<PROP_KEY_MTU, c>>] =
                      [valid |-> TRUE, val |-> cur.val]

LoweringSetReachesAllChannelsWitness ==
    /\ pc = "idle"
    /\ num_chans = 2
    /\ nops = 2
    /\ cur.op = "set"
    /\ cur.key = PROP_KEY_MTU
    /\ cur.val = 1400
    /\ calls = << <<"set_mtu", 1400>> >>
    /\ 1500 \in direct
    /\ \A c \in Chans(num_chans) : MtuProp(c) = [valid |-> TRUE, val |-> 1400]

LocalKeys == {PROP_KEY_SCALING, PROP_KEY_SAMP_RATE, PROP_KEY_TICK_RATE}

\* C15: during a set of Scaling[i], SampleRate[i] or TickRate[i] no other
\* property changes, no property is written by a resolver, nothing but the
\* property set is dirty, and the aggregate MTU stays as it is
LocalSetTouchesOnlyItsProperty ==
    [][cur'.key \in LocalKeys =>
          /\ mtu' = mtu
          /\ written' = {}
          /\ dirty' \subseteq {<<cur'.key, cur'.chan>>}
          /\ \A id \in PropIds(num_chans) \ {<<cur'.key, cur'.chan>>} :
                 props'[id] = props[id]]_vars

LocalSetTouchesOnlyItsPropertyWitness ==
    /\ pc = "idle"
    /\ num_chans = 2
    /\ cur.key = PROP_KEY_SAMP_RATE
    /\ cur.chan = 1
    /\ cur.val = 200
    /\ props[<<PROP_KEY_SAMP_RATE, 0>>] = [valid |-> TRUE, val |-> 100]
    /\ mtu = 1472

\* C16: a resolver whose input property is invalid changes nothing when it
\* runs, and a freshly constructed node, whose resolvers have all run once,
\* has made no device-control call and has left the aggregate MTU alone
InvalidInputResolverDoesNothing ==
    /\ LET rs == Resolvers(num_chans)
           s == St
       IN \A k \in DOMAIN rs :
              ~is_valid(s, rs[k]) => Invoke(s, rs[k], num_chans) = s
    /\ nops = 0 =>
           /\ calls = <<>>
           /\ dev = Registered(num_chans, otw_format).dev
           /\ mtu = SizeMax
           /\ \A id \in PropIds(num_chans) :
                  props[id].valid <=> id[1] = PROP_KEY_TYPE

InvalidInputResolverDoesNothingWitness ==
    /\ nops = 0
    /\ pc = "idle"
    /\ num_chans = 2
    /\ ~is_valid(St, <<PROP_KEY_SCALING, 1>>)
    /\ ~is_valid(St, <<PROP_KEY_MTU, 0>>)
    /\ calls = <<>>

\* the resolvers of a node of n channels that have property id in their
\* write set, by position in registration order
Writers(id, n) ==
    LET rs == Resolvers(n)
    IN {k \in DOMAIN rs : id \in Outputs(rs[k], n)}

\* C17 as stated: every property is in the write set of at most one resolver
AtMostOneWriterPerProperty ==
    \A id \in PropIds(num_chans) : Cardinality(Writers(id, num_chans)) <= 1

\* C17: a scaling, sample-rate, tick-rate or type property is in the write
\* set of no resolver; an MTU property is in the write set of the MTU
\* resolver of every channel, channel_count resolvers in all
WritersPerProperty ==
    \A id \in PropIds(num_chans) :
        Cardinality(Writers(id, num_chans)) =
            IF id[1] = PROP_KEY_MTU THEN num_chans ELSE 0

WritersPerPropertyWitness ==
    /\ num_chans = 2
    /\ nops = 0
    /\ Writers(<<PROP_KEY_MTU, 0>>, 2) = {7, 8}
    /\ Writers(<<PROP_KEY_MTU, 1>>, 2) = {7, 8}
    /\ Writers(<<PROP_KEY_SCALING, 0>>, 2) = {}

\* C18: from every reachable state, invoking a resolver a second time right
\* after the first changes no property value, no validity flag and not the
\* aggregate MTU
ResolversIdempotent ==
    LET rs == Resolvers(num_chans)
        s == St
    IN \A k \in DOMAIN rs :
           LET once == Invoke(s, rs[k], num_chans)
               twice == Invoke(once, rs[k], num_chans)
           IN twice.props = once.props /\ twice.mtu = once.mtu

ResolversIdempotentWitness ==
    /\ JustCalled
    /\ num_chans = 2
    /\ cur.key = PROP_KEY_MTU
    /\ cur.val < mtu
    /\ mtu # SizeMax
    /\ Invoke(St, <<PROP_KEY_MTU, cur.chan>>, num_chans).mtu = cur.val

\* C19: the aggregate MTU changes only in a step in which the engine runs a
\* cross-channel MTU resolver, and its new value is the value of that
\* resolver's own MTU property
AggregateWrittenOnlyByMtuResolver ==
    [][mtu' # mtu =>
          /\ pc = "resolve"
          /\ queue # <<>>
          /\ Head(queue)[1] = PROP_KEY_MTU
          /\ props[Head(queue)].valid
          /\ mtu' = props[Head(queue)].val]_vars

AggregateWrittenOnlyByMtuResolverWitness ==
    /\ pc = "resolve"
    /\ rounds = 0
    /\ queue = <<>>
    /\ cur.op = "connect"
    /\ calls = << <<"set_mtu", mtu>> >>
    /\ mtu = cur.val
    /\ nops = 2

DevRate(d, key) == IF key = PROP_KEY_SAMP_RATE THEN d.samp ELSE d.tick

\* C20: the device sample rate, and likewise the device tick rate, is the
\* value of the most recent set of that key on any channel: it changes only
\* in such a set, equals the value set when the set returns, and the
\* properties of that key on the other channels keep their values
DeviceRateIsLastWrite ==
    [][\A key \in {PROP_KEY_SAMP_RATE, PROP_KEY_TICK_RATE} :
          /\ (cur'.key = key /\ pc = "resolve" /\ pc' = "idle") =>
                 DevRate(dev', key) = cur'.val
          /\ DevRate(dev', key) # DevRate(dev, key) =>
                 (cur'.key = key /\ DevRate(dev', key) = cur'.val)
          /\ cur'.key = key =>
                 \A c \in Chans(num_chans) \ {cur'.chan} :
                     props'[<<key, c>>] = props[<<key, c>>]]_vars

DeviceRateIsLastWriteWitness ==
    /\ pc = "idle"
    /\ num_chans = 2
    /\ cur.key = PROP_KEY_SAMP_RATE
    /\ cur.chan = 0
    /\ cur.val = 100
    /\ dev.samp = 100
    /\ props[<<PROP_KEY_SAMP_RATE, 0>>] = [valid |-> TRUE, val |-> 100]
    /\ props[<<PROP_KEY_SAMP_RATE, 1>>] = [valid |-> TRUE, val |-> 200]
    /\ dev.tick = 400
====
